---- MODULE Spec2Model ----
(***************************************************************************)
(* ShortShop backend: the product catalog (products, variants, images,     *)
(* recommendation edges) and the session cart (carts, cart items) as       *)
(* tables of a PostgreSQL database, and the service methods of             *)
(* ProductService and CartService as atomic requests against it.           *)
(*                                                                         *)
(* Every request runs in an AsyncSession of its own (get_db_session): a    *)
(* transaction tx = [c |-> committed database, w |-> the session's view].  *)
(* Statements write tx.w, commit() makes tx.w durable, and when the        *)
(* request ends (normally or by an exception) whatever was not committed   *)
(* is rolled back; sequences (SERIAL ids) are never rolled back.           *)
(***************************************************************************)
EXTENDS Integers, Sequences, FiniteSets, TLC

----------------------------------------------------------------------------
(* Bounds of the model *)

MaxProducts == 2
MaxVariants == 2
MaxImages == 1
MaxRecs == 2
MaxCarts == 2
MaxItems == 2
MaxQty == 5
MaxReviews == 2

Sessions == {"s1", "s2"}
NoColor == "none"

(* HTTP status codes used by the services and routers *)
Created == 201
Ok200 == 200
BadRequest == 400
Forbidden == 403
NotFound == 404
ServerError == 500
UnprocessableEntity == 422

(* An Optional value (a nullable column, an Optional field): None or Some(v) *)
None == {}

Some(v) == {v}

(* The columns of products that ProductUpdate can carry, and those declared   *)
(* nullable=False.                                                            *)
ProductFields == {"name", "price", "description", "lifetime_guarantee"}

NotNullFields == {"name", "price", "description"}

----------------------------------------------------------------------------
(* The database *)

EmptyDB ==
  [products |-> {}, variants |-> {}, images |-> {}, recs |-> {},
   carts |-> {}, items |-> {}, reviews |-> {},
   seq |-> [product |-> 0, variant |-> 0, image |-> 0, rec |-> 0,
            cart |-> 0, item |-> 0, review |-> 0]]

Begin(d) == [c |-> d, w |-> d]

Commit(tx) == [c |-> tx.w, w |-> tx.w]

(* Faulty variant: a flush that commits. *)
FlushCommits(tx) == [c |-> tx.w, w |-> tx.w]

Flush(tx) == tx

EndRequest(tx) == [tx.c EXCEPT !.seq = tx.w.seq]

Raise(tx, code) == [tx |-> tx, err |-> code, id |-> 0, items |-> {}]

Return(tx, id, its) == [tx |-> tx, err |-> 0, id |-> id, items |-> its]

Write(tx, w2) == [tx EXCEPT !.w = w2]

TheOne(S) == CHOOSE x \in S : TRUE

Min(S) == CHOOSE x \in S : \A y \in S : x <= y

----------------------------------------------------------------------------
(* CartService *)

FindCartBySession(w, sid) == {c \in w.carts : c.session_id = sid}

CartItemsOf(w, cid) == {i \in w.items : i.cart_id = cid}

CartItemResponse(i) ==
  [id |-> i.id, variant_id |-> i.variant_id, quantity |-> i.quantity]

CartResponseItems(w, cid) == {CartItemResponse(i) : i \in CartItemsOf(w, cid)}

(* INSERT INTO carts: the id comes from the sequence; session_id is unique. *)
InsertCart(w, sid) ==
  LET cid == w.seq.cart + 1
      w1 == [w EXCEPT !.seq.cart = cid]
  IN IF \E c \in w.carts : c.session_id = sid
       THEN [ok |-> FALSE, id |-> cid, w |-> w1]
       ELSE [ok |-> TRUE, id |-> cid,
             w |-> [w1 EXCEPT !.carts = @ \cup {[id |-> cid, session_id |-> sid]}]]

(* Faulty variant: cart_items without uq_cart_item. *)
InsertItemNotUnique(w, cid, vid, q) ==
  LET iid == w.seq.item + 1
  IN [ok |-> TRUE, id |-> iid,
      w |-> [w EXCEPT !.seq.item = iid,
                      !.items = @ \cup {[id |-> iid, cart_id |-> cid,
                                         variant_id |-> vid, quantity |-> q]}]]

(* INSERT INTO cart_items: (cart_id, variant_id) is unique. *)
InsertItem(w, cid, vid, q) ==
  LET iid == w.seq.item + 1
      w1 == [w EXCEPT !.seq.item = iid]
      row == [id |-> iid, cart_id |-> cid, variant_id |-> vid, quantity |-> q]
  IN IF \E i \in w.items : i.cart_id = cid /\ i.variant_id = vid
       THEN [ok |-> FALSE, id |-> iid, w |-> w1]
       ELSE [ok |-> TRUE, id |-> iid, w |-> [w1 EXCEPT !.items = @ \cup {row}]]

SetQuantity(w, it, q) ==
  [w EXCEPT !.items = (@ \ {it}) \cup {[it EXCEPT !.quantity = q]}]

(* Faulty variant: a lookup that makes the cart it does not find. *)
GetOrCreateCart(tx, sid) ==
  LET found == FindCartBySession(tx.w, sid)
      ins == InsertCart(tx.w, sid)
  IN IF found # {}
       THEN Return(tx, TheOne(found).id, CartResponseItems(tx.w, TheOne(found).id))
       ELSE Return(Commit(Write(tx, ins.w)), ins.id, {})

GetCartTx(tx, sid) ==
  LET found == FindCartBySession(tx.w, sid)
  IN IF found = {}
       THEN Raise(tx, NotFound)
       ELSE Return(tx, TheOne(found).id, CartResponseItems(tx.w, TheOne(found).id))

(* Faulty variant: create_cart without the lookup of an existing cart. *)
CreateCartAlwaysInsert(tx, sid) ==
  LET ins == InsertCart(tx.w, sid)
  IN IF ~ins.ok
       THEN Raise(Write(tx, ins.w), ServerError)
       ELSE Return(Commit(Write(tx, ins.w)), ins.id, CartResponseItems(ins.w, ins.id))

(* Faulty variant: create_cart without its commit. *)
CreateCartNoCommit(tx, sid) ==
  LET found == FindCartBySession(tx.w, sid)
      ins == InsertCart(tx.w, sid)
  IN IF found # {}
       THEN Return(tx, TheOne(found).id, CartResponseItems(tx.w, TheOne(found).id))
       ELSE IF ~ins.ok
         THEN Raise(Write(tx, ins.w), ServerError)
         ELSE Return(Write(tx, ins.w), ins.id, CartResponseItems(ins.w, ins.id))

CreateCartTx(tx, sid) ==
  LET found == FindCartBySession(tx.w, sid)
      ins == InsertCart(tx.w, sid)
  IN IF found # {}
       THEN Return(tx, TheOne(found).id, CartResponseItems(tx.w, TheOne(found).id))
       ELSE IF ~ins.ok
         THEN Raise(Write(tx, ins.w), ServerError)
         ELSE Return(Commit(Write(tx, ins.w)), ins.id,
                     CartResponseItems(ins.w, ins.id))

(* Faulty variant: add_item that overwrites the quantity. *)
OverwriteQuantity(old, q) == q

IncrementQuantity(old, q) == old + q

ExistingItem(w, cid, vid) ==
  {i \in w.items : i.cart_id = cid /\ i.variant_id = vid}

AddItemTx(tx, sid, vid, q) ==
  LET found == FindCartBySession(tx.w, sid)
      cc == IF found = {} THEN CreateCartTx(tx, sid)
                          ELSE Return(tx, TheOne(found).id, {})
      t1 == cc.tx
      existing == ExistingItem(t1.w, cc.id, vid)
      upd == SetQuantity(t1.w, TheOne(existing),
                         IncrementQuantity(TheOne(existing).quantity, q))
      ins == InsertItem(t1.w, cc.id, vid, q)
  IN IF cc.err # 0 THEN cc
     ELSE IF ~\E v \in t1.w.variants : v.id = vid THEN Raise(t1, NotFound)
     ELSE IF existing # {}
       THEN Return(Commit(Write(t1, upd)), TheOne(existing).id,
                   {CartItemResponse(i) : i \in ExistingItem(upd, cc.id, vid)})
     ELSE IF ~ins.ok THEN Raise(Write(t1, ins.w), ServerError)
     ELSE Return(Commit(Write(t1, ins.w)), ins.id,
                 {CartItemResponse(i) : i \in ExistingItem(ins.w, cc.id, vid)})

(* Faulty variant: clear_cart that deletes the items of every cart. *)
ClearEveryCart(w, cid) == [w EXCEPT !.items = {}]

(* DELETE FROM cart_items WHERE cart_id = cid *)
DeleteItemsOfCart(w, cid) == [w EXCEPT !.items = {i \in @ : i.cart_id # cid}]

(* Faulty variant: the item looked up by id alone. *)
AnyItemById(w, cid, itemId) == {i \in w.items : i.id = itemId}

OwnedItem(w, cid, itemId) == {i \in w.items : i.id = itemId /\ i.cart_id = cid}

(* Faulty variant: update_item that adds to the quantity. *)
IncrementOnUpdate(old, q) == old + q

ReplaceQuantity(old, q) == q

UpdateItemTx(tx, sid, itemId, q) ==
  LET cart == GetCartTx(tx, sid)
      item == OwnedItem(tx.w, cart.id, itemId)
      upd == SetQuantity(tx.w, TheOne(item), ReplaceQuantity(TheOne(item).quantity, q))
  IN IF cart.err # 0 THEN cart
     ELSE IF item = {} THEN Raise(tx, Forbidden)
     ELSE Return(Commit(Write(tx, upd)), itemId,
                 {CartItemResponse(i) : i \in OwnedItem(upd, cart.id, itemId)})

DeleteItemTx(tx, sid, itemId) ==
  LET cart == GetCartTx(tx, sid)
      item == OwnedItem(tx.w, cart.id, itemId)
  IN IF cart.err # 0 THEN cart
     ELSE IF item = {} THEN Raise(tx, Forbidden)
     ELSE Return(Commit(Write(tx, [tx.w EXCEPT !.items = @ \ item])), 0, {})

ClearCartTx(tx, sid) ==
  LET cart == GetCartTx(tx, sid)
  IN IF cart.err # 0 THEN cart
     ELSE Return(Commit(Write(tx, DeleteItemsOfCart(tx.w, cart.id))), 0, {})

----------------------------------------------------------------------------
(* ProductService *)

ProductExists(w, pid) == \E p \in w.products : p.id = pid

GetByIdTx(tx, pid) ==
  IF ProductExists(tx.w, pid) THEN Return(tx, pid, {}) ELSE Raise(tx, NotFound)

SamePair(a, b) == a.color = b.color /\ a.size = b.size

(* The rows of vs, in order, that INSERT INTO product_variants rejects:       *)
(* (product_id, color, size) is unique (uq_variant).                          *)
VariantConflicts(w, pid, vs) ==
  {k \in 1..Len(vs) :
     \/ \E v \in w.variants : v.product_id = pid /\ SamePair(v, vs[k])
     \/ \E j \in 1..(k - 1) : SamePair(vs[j], vs[k])}

VariantRow(vid, pid, spec) ==
  [id |-> vid, product_id |-> pid, color |-> spec.color, size |-> spec.size,
   in_stock |-> spec.in_stock]

(* INSERT INTO product_variants for the rows vs of product pid. The sequence  *)
(* advances for every row up to and including the first one rejected.         *)
InsertVariants(w, pid, vs) ==
  LET bad == VariantConflicts(w, pid, vs)
      base == w.seq.variant
  IN IF bad # {}
       THEN [ok |-> FALSE, w |-> [w EXCEPT !.seq.variant = base + Min(bad)]]
       ELSE [ok |-> TRUE,
             w |-> [w EXCEPT !.seq.variant = base + Len(vs),
                             !.variants = @ \cup
                               {VariantRow(base + k, pid, vs[k]) : k \in 1..Len(vs)}]]

InsertImages(w, pid, imgs) ==
  LET base == w.seq.image
  IN [w EXCEPT !.seq.image = base + Len(imgs),
               !.images = @ \cup
                 {[id |-> base + k, product_id |-> pid, color |-> imgs[k].color] :
                    k \in 1..Len(imgs)}]

(* The row of products that create builds from its payload. *)
ProductRow(pid, product_in) ==
  [id |-> pid, name |-> Some(product_in.name), price |-> Some(product_in.price),
   description |-> Some(product_in.description),
   lifetime_guarantee |-> Some(product_in.lifetime_guarantee)]

(* create: the product row is flushed, images and variants are added and the *)
(* commit flushes them. imagesFirst: whether that flush inserts the images    *)
(* before the variants (it only shows in the image ids a failure uses up).    *)
CreateTx(tx, product_in, imagesFirst) ==
  LET pid == tx.w.seq.product + 1
      w1 == [tx.w EXCEPT !.seq.product = pid, !.products = @ \cup {ProductRow(pid, product_in)}]
      t1 == Flush(Write(tx, w1))
      wi == InsertImages(t1.w, pid, product_in.images)
      iv == InsertVariants(IF imagesFirst THEN wi ELSE t1.w, pid, product_in.variants)
      w2 == IF imagesFirst THEN iv.w ELSE InsertImages(iv.w, pid, product_in.images)
  IN IF ~iv.ok
       THEN Raise(Write(t1, [t1.w EXCEPT !.seq = iv.w.seq]), ServerError)
       ELSE Return(Commit(Write(t1, w2)), pid, {})

(* ProductUpdate.model_dump(exclude_unset=True): the fields the request set,  *)
(* with their values, None included.                                          *)
ModelDumpExcludeUnset(product_in) ==
  [f \in product_in.set |-> product_in.vals[f]]

(* for field, value in update_data.items(): setattr(product, field, value) *)
SetAttrs(p, update_data) ==
  LET val(f) == IF f \in DOMAIN update_data THEN update_data[f] ELSE p[f]
  IN [id |-> p.id, name |-> val("name"), price |-> val("price"),
      description |-> val("description"),
      lifetime_guarantee |-> val("lifetime_guarantee")]

(* UPDATE products is rejected when a nullable=False column would hold NULL. *)
ViolatesNotNull(p) == \E f \in NotNullFields : p[f] = None

ProductById(w, pid) == {p \in w.products : p.id = pid}

UpdateTx(tx, pid, product_in) ==
  LET product == GetByIdTx(tx, pid)
      old == TheOne(ProductById(tx.w, pid))
      new == SetAttrs(old, ModelDumpExcludeUnset(product_in))
  IN IF product.err # 0 THEN product
     ELSE IF ViolatesNotNull(new) THEN Raise(tx, ServerError)
     ELSE Return(Commit(Write(tx,
            [tx.w EXCEPT !.products = (@ \ {old}) \cup {new}])), pid, {})

(* response_model=ProductResponse: the returned product is validated against  *)
(* the schema, whose four fields are not Optional; a failure is an unhandled  *)
(* error of the route, after the service has returned.                        *)
ProductResponse(r) ==
  IF r.err = 0 /\ \E p \in ProductById(r.tx.w, r.id) :
                     \E f \in ProductFields : p[f] = None
    THEN [r EXCEPT !.err = ServerError]
    ELSE r

VariantsOfProduct(w, pid) == {v \in w.variants : v.product_id = pid}

ImagesOfProduct(w, pid) == {i \in w.images : i.product_id = pid}

ProductRecommendations(w, pid) == {r \in w.recs : r.base_product_id = pid}

(* Faulty variant: no cascade over recommended_in. *)
NoRecommendedIn(w, pid) == {}

ProductRecommendedIn(w, pid) == {r \in w.recs : r.recommended_product_id = pid}

(* Faulty variant: cart_items.variant_id without ondelete="CASCADE". *)
DeleteVariantsOnly(w, vs) == [w EXCEPT !.variants = @ \ vs]

(* DELETE FROM product_variants: cart_items.variant_id is ON DELETE CASCADE. *)
DeleteVariantRows(w, vs) ==
  [w EXCEPT !.variants = @ \ vs,
            !.items = {i \in @ : ~\E v \in vs : v.id = i.variant_id}]

(* session.delete(product): the relationships' cascade="all, delete" deletes  *)
(* the variants, images and both sides' recommendation rows, then the product.*)
DeleteProductRows(w, pid) ==
  LET w1 == DeleteVariantRows(w, VariantsOfProduct(w, pid))
  IN [w1 EXCEPT !.images = @ \ ImagesOfProduct(w, pid),
                !.recs = (@ \ ProductRecommendations(w, pid))
                            \ ProductRecommendedIn(w, pid),
                !.products = {p \in @ : p.id # pid}]

DeleteTx(tx, pid) ==
  LET product == GetByIdTx(tx, pid)
  IN IF product.err # 0 THEN product
     ELSE Return(Commit(Write(tx, DeleteProductRows(tx.w, pid))), 0, {})

AddImagesTx(tx, pid, images_in) ==
  LET product == GetByIdTx(tx, pid)
  IN IF product.err # 0 THEN product
     ELSE IF Len(images_in) = 0 THEN Raise(tx, BadRequest)
     ELSE Return(Commit(Write(tx, InsertImages(tx.w, pid, images_in))), 0, {})

(* Faulty variant: the image looked up by id alone. *)
ImageByIdOnly(w, pid, imageId) == {i \in w.images : i.id = imageId}

ImageOfProduct(w, pid, imageId) ==
  {i \in w.images : i.id = imageId /\ i.product_id = pid}

DeleteImageTx(tx, pid, imageId) ==
  LET image == ImageOfProduct(tx.w, pid, imageId)
  IN IF image = {} THEN Raise(tx, NotFound)
     ELSE Return(Commit(Write(tx, [tx.w EXCEPT !.images = @ \ image])), 0, {})

AddVariantTx(tx, pid, variant_in) ==
  LET product == GetByIdTx(tx, pid)
      ins == InsertVariants(tx.w, pid, <<variant_in>>)
  IN IF product.err # 0 THEN product
     ELSE IF ~ins.ok THEN Raise(Write(tx, ins.w), ServerError)
     ELSE Return(Commit(Write(tx, ins.w)), ins.w.seq.variant, {})

VariantById(w, vid) == {v \in w.variants : v.id = vid}

UpdateVariantTx(tx, vid, variant_in) ==
  LET variant == VariantById(tx.w, vid)
      old == TheOne(variant)
      new == VariantRow(vid, old.product_id, variant_in)
  IN IF variant = {} THEN Raise(tx, NotFound)
     ELSE IF \E v \in tx.w.variants :
               v.id # vid /\ v.product_id = old.product_id /\ SamePair(v, variant_in)
       THEN Raise(tx, ServerError)
     ELSE Return(Commit(Write(tx,
            [tx.w EXCEPT !.variants = (@ \ variant) \cup {new}])), vid, {})

DeleteVariantTx(tx, vid) ==
  LET variant == VariantById(tx.w, vid)
  IN IF variant = {} THEN Raise(tx, NotFound)
     ELSE Return(Commit(Write(tx, DeleteVariantRows(tx.w, variant))), 0, {})

ExistingRecommendation(w, base_id, rec_id) ==
  {r \in w.recs : r.base_product_id = base_id /\ r.recommended_product_id = rec_id}

(* INSERT INTO product_recommendations: (base, recommended) is unique. *)
InsertRecommendation(w, base_id, rec_id) ==
  LET rid == w.seq.rec + 1
      w1 == [w EXCEPT !.seq.rec = rid]
      row == [id |-> rid, base_product_id |-> base_id,
              recommended_product_id |-> rec_id]
  IN IF ExistingRecommendation(w, base_id, rec_id) # {}
       THEN [ok |-> FALSE, id |-> rid, w |-> w1]
       ELSE [ok |-> TRUE, id |-> rid, w |-> [w1 EXCEPT !.recs = @ \cup {row}]]

(* Faulty variant: add_recommendation without the duplicate check. *)
AddRecommendationNoDuplicateCheck(tx, base_id, rec_id) ==
  LET ins == InsertRecommendation(tx.w, base_id, rec_id)
  IN IF base_id = rec_id THEN Raise(tx, BadRequest)
     ELSE IF GetByIdTx(tx, base_id).err # 0 THEN Raise(tx, NotFound)
     ELSE IF GetByIdTx(tx, rec_id).err # 0 THEN Raise(tx, NotFound)
     ELSE IF ~ins.ok THEN Raise(Write(tx, ins.w), ServerError)
     ELSE Return(Commit(Write(tx, ins.w)), 0, {})

(* Faulty variant: add_recommendation that looks the products up first. *)
AddRecommendationExistenceFirst(tx, base_id, rec_id) ==
  LET ins == InsertRecommendation(tx.w, base_id, rec_id)
  IN IF GetByIdTx(tx, base_id).err # 0 THEN Raise(tx, NotFound)
     ELSE IF GetByIdTx(tx, rec_id).err # 0 THEN Raise(tx, NotFound)
     ELSE IF base_id = rec_id THEN Raise(tx, BadRequest)
     ELSE IF ExistingRecommendation(tx.w, base_id, rec_id) # {}
       THEN Raise(tx, BadRequest)
     ELSE IF ~ins.ok THEN Raise(Write(tx, ins.w), ServerError)
     ELSE Return(Commit(Write(tx, ins.w)), 0, {})

AddRecommendationTx(tx, base_id, rec_id) ==
  LET ins == InsertRecommendation(tx.w, base_id, rec_id)
  IN IF base_id = rec_id THEN Raise(tx, BadRequest)
     ELSE IF GetByIdTx(tx, base_id).err # 0 THEN Raise(tx, NotFound)
     ELSE IF GetByIdTx(tx, rec_id).err # 0 THEN Raise(tx, NotFound)
     ELSE IF ExistingRecommendation(tx.w, base_id, rec_id) # {}
       THEN Raise(tx, BadRequest)
     ELSE IF ~ins.ok THEN Raise(Write(tx, ins.w), ServerError)
     ELSE Return(Commit(Write(tx, ins.w)), 0, {})

(* Faulty variant: the edges that touch the product at either end. *)
RecommendationsEitherWay(w, base_id) ==
  {r \in w.recs : r.base_product_id = base_id \/ r.recommended_product_id = base_id}

(* select(ProductRecommendation).filter(base_product_id == base_id) *)
RecommendationsOfBase(w, base_id) == {r \in w.recs : r.base_product_id = base_id}

GetRecommendationsTx(tx, base_id) ==
  IF GetByIdTx(tx, base_id).err # 0 THEN Raise(tx, NotFound)
  ELSE Return(tx, 0, RecommendationsOfBase(tx.w, base_id))

RecommendationById(w, rid) == {r \in w.recs : r.id = rid}

DeleteRecommendationTx(tx, rid) ==
  LET rec == RecommendationById(tx.w, rid)
  IN IF rec = {} THEN Raise(tx, NotFound)
     ELSE Return(Commit(Write(tx, [tx.w EXCEPT !.recs = @ \ rec])), 0, {})

----------------------------------------------------------------------------
(* ReviewService *)

(* INSERT INTO the reviews table: the id comes from the sequence; product_id  *)
(* is a plain integer column, no foreign key to products.                     *)
InsertReview(w, review_in) ==
  LET rid == w.seq.review + 1
      row == [id |-> rid, product_id |-> review_in.product_id,
              title |-> review_in.title, description |-> review_in.description,
              author_name |-> review_in.author_name, score |-> review_in.score]
  IN [id |-> rid, w |-> [w EXCEPT !.seq.review = rid, !.reviews = @ \cup {row}]]

(* The body of a review: ReviewCreate, which has no id. *)
ReviewBody(r) ==
  [product_id |-> r.product_id, title |-> r.title, description |-> r.description,
   author_name |-> r.author_name, score |-> r.score]

(* response_model=ReviewCreate, List[ReviewCreate]: the rows as bodies (equal *)
(* bodies show once here).                                                    *)
ReviewResponse(r) == [r EXCEPT !.items = {ReviewBody(x) : x \in @}]

(* Faulty variant: create that looks the product up first. *)
CreateReviewOfExistingProduct(tx, review_in) ==
  LET ins == InsertReview(tx.w, review_in)
  IN IF ~\E p \in tx.w.products : p.id = review_in.product_id
       THEN Raise(tx, NotFound)
       ELSE Return(Commit(Flush(Write(tx, ins.w))), ins.id,
                   {r \in ins.w.reviews : r.id = ins.id})

CreateReviewTx(tx, review_in) ==
  LET ins == InsertReview(tx.w, review_in)
  IN Return(Commit(Flush(Write(tx, ins.w))), ins.id,
            {r \in ins.w.reviews : r.id = ins.id})

(* select(ProductReview).offset(skip).limit(limit) has no ORDER BY: the rows  *)
(* come in an order of the database's choosing, so the page is any set of     *)
(* rows of the size the window leaves.                                        *)
ReviewPages(w, skip, limit) ==
  LET n == Cardinality(w.reviews)
      k == IF n <= skip THEN 0 ELSE IF n - skip <= limit THEN n - skip ELSE limit
  IN {pg \in SUBSET w.reviews : Cardinality(pg) = k}

GetAllReviewsTx(tx, skip, limit, page) == Return(tx, 0, page)

----------------------------------------------------------------------------
(* The requests: one action per route of routers/v1/product.py and cart.py.  *)
(* db is the committed database, last the response of the latest request,    *)
(* hist what an observer of the requests has recorded so far.                 *)

(* procs: the requests that are being served step by step, one per worker.    *)

VARIABLES db, last, hist, procs

vars == <<db, last, hist, procs>>

Workers == {"w1", "w2"}

(* A worker that serves no request. cart is the id of the Cart object the     *)
(* request holds, loaded the CartItem objects in its session's identity map,  *)
(* item the result of add_item's lookup of the existing item; once the        *)
(* request is done, seen is what that lookup had returned.                    *)
Idle ==
  [pc |-> "idle", op |-> "none", sid |-> "", vid |-> 0, q |-> 0, cart |-> 0,
   loaded |-> {}, item |-> {}, seen |-> {}, status |-> 0, id |-> 0]

(* The quantities of tests/test_cart.py: 2 is added, then replaced by 5. *)
AddQty == 2
UpdateQty == 5

NoResponse ==
  [op |-> "none", status |-> 0, sid |-> "", a |-> 0, b |-> 0, id |-> 0, items |-> {}]

E2EIdle == [stage |-> 0, sid |-> "", vid |-> 0, item |-> 0]

Init ==
  /\ db = EmptyDB
  /\ last = NoResponse
  /\ hist = [firstCartId |-> [s \in Sessions |-> 0],
             former |-> [products |-> {}, variants |-> {}, images |-> {}, recs |-> {}],
             e2e |-> E2EIdle,
             removed |-> {}]
  /\ procs = [w \in Workers |-> Idle]

(* The id the first create_cart(sid) returned. *)
TrackFirstCart(op, sid, r) ==
  IF op = "create_cart" /\ r.err = 0 /\ hist.firstCartId[sid] = 0
    THEN [hist.firstCartId EXCEPT ![sid] = r.id]
    ELSE hist.firstCartId

(* The products deleted so far and the ids of the rows that referenced them  *)
(* when they were deleted.                                                    *)
TrackFormer(op, pid, r) ==
  IF op = "delete_product" /\ r.err = 0
    THEN [products |-> hist.former.products \cup {pid},
          variants |-> hist.former.variants \cup
                         {v.id : v \in {x \in db.variants : x.product_id = pid}},
          images |-> hist.former.images \cup
                       {i.id : i \in {x \in db.images : x.product_id = pid}},
          recs |-> hist.former.recs \cup
                     {e.id : e \in {x \in db.recs :
                        \/ x.base_product_id = pid
                        \/ x.recommended_product_id = pid}}]
    ELSE hist.former

(* How far the requests have followed test_cart_crud: a cart is created for a *)
(* new session (1), a variant is added with quantity 2 (2), the item is set   *)
(* to 5 (3), the item is deleted (4), the cart is cleared (5). Reading a cart *)
(* or a product and creating a product keep the place; any other request      *)
(* leaves the sequence.                                                       *)
TrackE2E(op, sid, a, b, r) ==
  LET e == hist.e2e
  IN IF op = "create_cart" /\ FindCartBySession(db, sid) = {}
       THEN [stage |-> 1, sid |-> sid, vid |-> 0, item |-> 0]
     ELSE IF e.stage = 0 THEN e
     ELSE IF op \in {"get_cart", "get_product", "create_product"} THEN e
     ELSE IF /\ e.stage = 1 /\ op = "add_item" /\ sid = e.sid /\ b = AddQty
             /\ \E v \in db.variants : v.id = a
       THEN [stage |-> 2, sid |-> sid, vid |-> a, item |-> r.id]
     ELSE IF /\ e.stage = 2 /\ op = "update_item" /\ sid = e.sid /\ a = e.item
             /\ b = UpdateQty
       THEN [e EXCEPT !.stage = 3]
     ELSE IF e.stage = 3 /\ op = "delete_item" /\ sid = e.sid /\ a = e.item
       THEN [e EXCEPT !.stage = 4]
     ELSE IF e.stage = 4 /\ op = "clear_cart" /\ sid = e.sid
       THEN [e EXCEPT !.stage = 5]
     ELSE E2EIdle

(* The ids of the CartItem rows the request deleted. *)
TrackRemoved(r) == {i.id : i \in db.items \ EndRequest(r.tx).items}

(* The response of a route: the service's HTTPException status, or the       *)
(* route's status_code; the session is closed when the request ends.          *)
Respond(op, r, okStatus, sid, a, b) ==
  /\ db' = EndRequest(r.tx)
  /\ last' = [op |-> op, status |-> IF r.err = 0 THEN okStatus ELSE r.err,
              sid |-> sid, a |-> a, b |-> b, id |-> r.id, items |-> r.items]
  /\ hist' = [firstCartId |-> TrackFirstCart(op, sid, r),
              former |-> TrackFormer(op, a, r),
              e2e |-> TrackE2E(op, sid, a, b, r),
              removed |-> TrackRemoved(r)]
  /\ procs' = procs

ProductIds == 1..(MaxProducts + 1)
VariantIds == 1..(MaxVariants + 1)
ImageIds == 1..(MaxImages + 1)
RecIds == 1..(MaxRecs + 1)
ItemIds == 1..(MaxItems + 1)
Quantities == {q \in {1, AddQty, UpdateQty} : q <= MaxQty}

(* Request bodies: variants differing in size only, in colour only, and in    *)
(* both; images with and without a colour tag.                                *)
VariantSpecs ==
  {[color |-> "Red", size |-> "M", in_stock |-> TRUE],
   [color |-> "Red", size |-> "L", in_stock |-> FALSE],
   [color |-> "Blue", size |-> "M", in_stock |-> FALSE]}
ImageSpecs == {[color |-> "Red"], [color |-> NoColor]}

SeqsUpTo(S, n) == UNION {[1..k -> S] : k \in 0..n}

(* ---- cart routes ---- *)

CreateCartReq(sid) ==
  /\ FindCartBySession(db, sid) # {} \/ db.seq.cart < MaxCarts
  /\ Respond("create_cart", CreateCartTx(Begin(db), sid), Created, sid, 0, 0)

CreateCart == \E sid \in Sessions : CreateCartReq(sid)

GetCartReq(sid) ==
  Respond("get_cart", GetCartTx(Begin(db), sid), Ok200, sid, 0, 0)

GetCart == \E sid \in Sessions : GetCartReq(sid)

ClearCartReq(sid) ==
  Respond("clear_cart", ClearCartTx(Begin(db), sid), Ok200, sid, 0, 0)

ClearCart == \E sid \in Sessions : ClearCartReq(sid)

AddItemReq(sid, vid, q) ==
  /\ FindCartBySession(db, sid) # {} \/ db.seq.cart < MaxCarts
  /\ db.seq.item < MaxItems
  /\ \A c \in FindCartBySession(db, sid) :
       \A i \in ExistingItem(db, c.id, vid) : i.quantity + q <= MaxQty
  /\ Respond("add_item", AddItemTx(Begin(db), sid, vid, q), Created, sid, vid, q)

AddItem == \E sid \in Sessions, vid \in VariantIds, q \in Quantities :
             AddItemReq(sid, vid, q)

UpdateItemReq(sid, itemId, q) ==
  Respond("update_item", UpdateItemTx(Begin(db), sid, itemId, q), Ok200,
          sid, itemId, q)

UpdateItem == \E sid \in Sessions, itemId \in ItemIds, q \in Quantities :
                UpdateItemReq(sid, itemId, q)

(* Faulty variant: quantity declared as a plain int. *)
AnyQuantity(q) == TRUE

(* quantity: int = Field(..., gt=0) *)
ValidQuantity(q) == q > 0

(* The quantities a request body can carry: the valid ones, zero and a        *)
(* negative one.                                                              *)
BodyQuantities == Quantities \cup {0, -1}

(* A body that fails validation is answered 422 before the route's function   *)
(* is called.                                                                 *)
RequestValidationError(op, sid, a, b) ==
  Respond(op, Raise(Begin(db), UnprocessableEntity), Ok200, sid, a, b)

(* POST /cart/{session_id}/items with any body quantity. *)
AddItemBody(sid, vid, q) ==
  IF ValidQuantity(q) THEN AddItemReq(sid, vid, q)
  ELSE RequestValidationError("add_item", sid, vid, q)

PostItem == \E sid \in Sessions, vid \in VariantIds, q \in BodyQuantities :
              AddItemBody(sid, vid, q)

(* PUT /cart/{session_id}/items/{item_id} with any body quantity. *)
UpdateItemBody(sid, itemId, q) ==
  IF ValidQuantity(q) THEN UpdateItemReq(sid, itemId, q)
  ELSE RequestValidationError("update_item", sid, itemId, q)

PutItem == \E sid \in Sessions, itemId \in ItemIds, q \in BodyQuantities :
             UpdateItemBody(sid, itemId, q)

DeleteItemReq(sid, itemId) ==
  Respond("delete_item", DeleteItemTx(Begin(db), sid, itemId), Ok200, sid, itemId, 0)

DeleteItem == \E sid \in Sessions, itemId \in ItemIds : DeleteItemReq(sid, itemId)

(* ---- product routes ---- *)

CreateProductReq(product_in, imagesFirst) ==
  /\ db.seq.product < MaxProducts
  /\ db.seq.variant + Len(product_in.variants) <= MaxVariants
  /\ db.seq.image + Len(product_in.images) <= MaxImages
  /\ Respond("create_product",
             ProductResponse(CreateTx(Begin(db), product_in, imagesFirst)), Created,
             "", Len(product_in.variants), Len(product_in.images))

GetProductReq(pid) ==
  Respond("get_product", ProductResponse(GetByIdTx(Begin(db), pid)), Ok200,
          "", pid, 0)

UpdateProductReq(pid, product_in) ==
  Respond("update_product", ProductResponse(UpdateTx(Begin(db), pid, product_in)),
          Ok200, "", pid, 0)

GetProduct == \E pid \in ProductIds : GetProductReq(pid)

DeleteProductReq(pid) ==
  Respond("delete_product", DeleteTx(Begin(db), pid), Ok200, "", pid, 0)

DeleteProduct == \E pid \in ProductIds : DeleteProductReq(pid)

AddImagesReq(pid, images_in) ==
  /\ db.seq.image + Len(images_in) <= MaxImages
  /\ Respond("add_images", AddImagesTx(Begin(db), pid, images_in), Created,
             "", pid, Len(images_in))

AddImages == \E pid \in ProductIds, images_in \in SeqsUpTo(ImageSpecs, MaxImages) :
               AddImagesReq(pid, images_in)

DeleteImageReq(pid, imageId) ==
  Respond("delete_image", DeleteImageTx(Begin(db), pid, imageId), Ok200,
          "", pid, imageId)

DeleteImage == \E pid \in ProductIds, imageId \in ImageIds :
                 DeleteImageReq(pid, imageId)

AddVariantReq(pid, variant_in) ==
  /\ db.seq.variant < MaxVariants
  /\ Respond("add_variant", AddVariantTx(Begin(db), pid, variant_in), Ok200,
             "", pid, 0)

AddVariant == \E pid \in ProductIds, variant_in \in VariantSpecs :
                AddVariantReq(pid, variant_in)

UpdateVariantReq(vid, variant_in) ==
  Respond("update_variant", UpdateVariantTx(Begin(db), vid, variant_in), Ok200,
          "", vid, 0)

UpdateVariant == \E vid \in VariantIds, variant_in \in VariantSpecs :
                   UpdateVariantReq(vid, variant_in)

DeleteVariantReq(vid) ==
  Respond("delete_variant", DeleteVariantTx(Begin(db), vid), Ok200, "", vid, 0)

DeleteVariant == \E vid \in VariantIds : DeleteVariantReq(vid)

AddRecommendationReq(base_id, rec_id) ==
  /\ db.seq.rec < MaxRecs
  /\ Respond("add_recommendation", AddRecommendationTx(Begin(db), base_id, rec_id),
             Ok200, "", base_id, rec_id)

AddRecommendation == \E base_id \in ProductIds, rec_id \in ProductIds :
                       AddRecommendationReq(base_id, rec_id)

GetRecommendationsReq(pid) ==
  Respond("get_recommendations", GetRecommendationsTx(Begin(db), pid), Ok200,
          "", pid, 0)

GetRecommendations == \E pid \in ProductIds : GetRecommendationsReq(pid)

DeleteRecommendationReq(rid) ==
  Respond("delete_recommendation", DeleteRecommendationTx(Begin(db), rid), Ok200,
          "", rid, 0)

DeleteRecommendation == \E rid \in RecIds : DeleteRecommendationReq(rid)

(* ---- review routes ---- *)

(* title (10 to 120 characters), description (20 to 300) and author_name are  *)
(* stored as given; score is 1 to 5.                                          *)
ReviewPayloads ==
  [product_id : ProductIds, title : {"A good shirt"},
   description : {"Fits well and lasts long"}, author_name : {"Ann"},
   score : {1, 5}]

(* skip and limit of GET /review/: the defaults 0 and 100, and a window of 1. *)
Skips == {0, 1}
Limits == {1, 100}

CreateReviewReq(review_in) ==
  /\ db.seq.review < MaxReviews
  /\ Respond("create_review", ReviewResponse(CreateReviewTx(Begin(db), review_in)),
             Created, "", review_in.product_id, review_in.score)

CreateReview == \E review_in \in ReviewPayloads : CreateReviewReq(review_in)

GetReviewsReq(skip, limit, page) ==
  Respond("get_reviews", ReviewResponse(GetAllReviewsTx(Begin(db), skip, limit, page)),
          Ok200, "", skip, limit)

GetReviews == \E skip \in Skips, limit \in Limits :
                \E page \in ReviewPages(db, skip, limit) :
                  GetReviewsReq(skip, limit, page)

(* ---- the catalog: every product route ---- *)

(* The product of tests/test_product.py (the price in hundredths), with any  *)
(* variants and images.                                                       *)
CatalogPayloads ==
  [name : {"Test Shirt"}, price : {1999}, description : {"A test shirt"},
   lifetime_guarantee : {TRUE},
   variants : SeqsUpTo(VariantSpecs, MaxVariants),
   images : SeqsUpTo(ImageSpecs, MaxImages)]

CreateProduct == \E product_in \in CatalogPayloads, imagesFirst \in BOOLEAN :
                   CreateProductReq(product_in, imagesFirst)

NextCatalog ==
  \/ CreateProduct
  \/ GetProduct
  \/ DeleteProduct
  \/ AddImages
  \/ DeleteImage
  \/ AddVariant
  \/ UpdateVariant
  \/ DeleteVariant
  \/ AddRecommendation
  \/ DeleteRecommendation

SpecCatalog == Init /\ [][NextCatalog]_vars

(* ---- the cart: every cart route, over a catalog built from the product of  *)
(* tests/test_cart.py, whose variants and products can be deleted again ----  *)

TestProduct ==
  [name |-> "Test Shirt", price |-> 1999, description |-> "A test shirt",
   lifetime_guarantee |-> TRUE,
   variants |-> <<[color |-> "Red", size |-> "M", in_stock |-> TRUE]>>,
   images |-> <<[color |-> "Red"]>>]

CreateTestProduct == \E imagesFirst \in BOOLEAN :
                       CreateProductReq(TestProduct, imagesFirst)

NextCart ==
  \/ CreateCart
  \/ GetCart
  \/ ClearCart
  \/ AddItem
  \/ UpdateItem
  \/ DeleteItem
  \/ CreateTestProduct
  \/ DeleteVariant
  \/ DeleteProduct

SpecCart == Init /\ [][NextCart]_vars

(* ---- the products: create, read, update and delete with every field, and  *)
(* the rows that hang on a product ----                                       *)

(* update_data of tests/test_product.py (the price in hundredths) *)
UpdateData ==
  [name |-> "Updated Shirt", price |-> 2499, description |-> "Updated",
   lifetime_guarantee |-> FALSE]

(* POST /product/ with the product of tests/test_product.py, with and        *)
(* without its image.                                                         *)
ProductPayloads ==
  {TestProduct, [TestProduct EXCEPT !.images = <<>>]}

Optional(S) == {None} \cup {Some(v) : v \in S}

(* The bodies of PUT /product/{id}: any set of fields set to their values of  *)
(* update_data, or one field set to null; a field the body leaves out is None *)
(* by default.                                                                *)
UpdatePayloads ==
  {u \in [set : SUBSET ProductFields,
          vals : [name : Optional({UpdateData.name}),
                  price : Optional({UpdateData.price}),
                  description : Optional({UpdateData.description}),
                  lifetime_guarantee : Optional({UpdateData.lifetime_guarantee})]] :
     /\ \A f \in ProductFields \ u.set : u.vals[f] = None
     /\ \/ \A f \in u.set : u.vals[f] # None
        \/ Cardinality(u.set) = 1}

CreateAnyProduct == \E product_in \in ProductPayloads, imagesFirst \in BOOLEAN :
                      CreateProductReq(product_in, imagesFirst)

UpdateProduct == \E pid \in ProductIds, product_in \in UpdatePayloads :
                   UpdateProductReq(pid, product_in)

NextProduct ==
  \/ CreateAnyProduct
  \/ GetProduct
  \/ UpdateProduct
  \/ AddRecommendation

SpecProduct == Init /\ [][NextProduct]_vars

(* ---- concurrent requests: create_cart and add_item served statement by    *)
(* statement by two workers. Every await of CartService is a round trip to    *)
(* the database, between which the other worker may run. The database runs    *)
(* READ COMMITTED: a statement sees what is committed when it runs. Each      *)
(* INSERT or UPDATE of these methods is followed by its commit with no        *)
(* statement in between, so the write and its commit are one step (a write    *)
(* that waits for another transaction's row proceeds once that commits). ---- *)

ConcQuantities == {q \in Quantities : q <= AddQty}

(* The concurrent requests are those of one session, for variant ids that     *)
(* have been handed out.                                                      *)
ConcSessions == {"s1"}

ConcVariantIds == {v \in VariantIds : v <= db.seq.variant}

(* The request ends: the worker keeps its response (the status, the id and,  *)
(* in item, the items of the body) and is free again.                         *)
Finish(w, p, status, id, its) ==
  /\ procs' = [procs EXCEPT ![w] = [p EXCEPT !.pc = "done", !.status = status,
                                              !.id = id, !.seen = p.item,
                                              !.item = its, !.loaded = {}]]
  /\ UNCHANGED <<last, hist>>

Goto(w, p, pc) ==
  /\ procs' = [procs EXCEPT ![w] = [p EXCEPT !.pc = pc]]
  /\ UNCHANGED <<last, hist>>

(* A worker that can take a request: the first of the free ones. *)
Free(w) ==
  /\ procs[w].pc \in {"idle", "done"}
  /\ w = "w2" => procs["w1"].pc \notin {"idle", "done"}

(* select(Cart).options(selectinload(Cart.items)): the Cart and its CartItem  *)
(* objects enter the session's identity map with the values read now.         *)
LoadCart(p, c) == [p EXCEPT !.cart = c.id, !.loaded = CartItemsOf(db, c.id)]

(* create_cart, lines 37-44: the lookup; an existing cart is returned. *)
CreateCartSelect(w) ==
  LET p == procs[w]
      found == FindCartBySession(db, p.sid)
  IN /\ p.pc = "cc_select"
     /\ db' = db
     /\ IF found = {} THEN Goto(w, p, "cc_insert")
        ELSE IF p.op = "create_cart"
          THEN Finish(w, LoadCart(p, TheOne(found)), Created, TheOne(found).id,
                      CartResponseItems(db, TheOne(found).id))
          ELSE Goto(w, LoadCart(p, TheOne(found)), "variant")

(* create_cart, lines 46-48: INSERT INTO carts and commit. *)
CreateCartInsert(w) ==
  LET p == procs[w]
      ins == InsertCart(db, p.sid)
  IN /\ p.pc = "cc_insert"
     /\ db.seq.cart < MaxCarts
     /\ db' = ins.w
     /\ IF ins.ok THEN Goto(w, [p EXCEPT !.cart = ins.id], "cc_reload")
                  ELSE Finish(w, p, ServerError, 0, {})

(* create_cart, lines 49-57: refresh and the reload with the items. *)
CreateCartReload(w) ==
  LET p == procs[w]
      c == [id |-> p.cart, session_id |-> p.sid]
  IN /\ p.pc = "cc_reload"
     /\ db' = db
     /\ IF p.op = "create_cart"
          THEN Finish(w, LoadCart(p, c), Created, p.cart, CartResponseItems(db, p.cart))
          ELSE Goto(w, LoadCart(p, c), "variant")

StartCreateCart(w, sid) ==
  /\ Free(w)
  /\ procs' = [procs EXCEPT ![w] = [Idle EXCEPT !.pc = "cc_select",
                                                !.op = "create_cart", !.sid = sid]]
  /\ UNCHANGED <<db, last, hist>>

(* add_item, lines 62-70: the lookup of the cart; create_cart when none. *)
AddItemSelectCart(w, sid, vid, q) ==
  LET p == [Idle EXCEPT !.op = "add_item", !.sid = sid, !.vid = vid, !.q = q]
      found == FindCartBySession(db, sid)
  IN /\ Free(w)
     /\ db' = db
     /\ IF found = {} THEN Goto(w, p, "cc_select")
                      ELSE Goto(w, LoadCart(p, TheOne(found)), "variant")

(* add_item, lines 73-78: the variant must exist. *)
AddItemSelectVariant(w) ==
  LET p == procs[w]
  IN /\ p.pc = "variant"
     /\ db' = db
     /\ IF \E v \in db.variants : v.id = p.vid
          THEN Goto(w, p, "item")
          ELSE Finish(w, p, NotFound, 0, {})

(* The object a query returns for a row: the one the identity map already     *)
(* holds for that primary key, with the values it was loaded with, or else a  *)
(* new object with the row's values.                                          *)
SessionObject(loaded, row) ==
  IF \E o \in loaded : o.id = row.id
    THEN TheOne({o \in loaded : o.id = row.id})
    ELSE row

(* add_item, lines 81-87: the lookup of the item of (cart, variant). *)
AddItemSelectItem(w) ==
  LET p == procs[w]
      rows == ExistingItem(db, p.cart, p.vid)
  IN /\ p.pc = "item"
     /\ db' = db
     /\ Goto(w, [p EXCEPT !.item = {SessionObject(p.loaded, r) : r \in rows}],
             "write")

(* Faulty variant: UPDATE cart_items SET quantity = quantity + q. *)
IncrementInDatabase(row, obj, q) == row.quantity + q

(* existing_item.quantity += q is computed on the session's object; the flush *)
(* writes the result: UPDATE cart_items SET quantity = <value> WHERE id = ..  *)
FlushedQuantity(row, obj, q) == IncrementQuantity(obj.quantity, q)

(* INSERT INTO cart_items also needs its variant (the foreign key). *)
InsertItemChecked(w, cid, vid, q) ==
  LET ins == InsertItem(w, cid, vid, q)
  IN IF \E v \in w.variants : v.id = vid THEN ins
     ELSE [ok |-> FALSE, id |-> ins.id, w |-> [w EXCEPT !.seq.item = ins.id]]

(* add_item, lines 89-105: the existing item's quantity is raised, or a new   *)
(* item is inserted; commit. An UPDATE that matches no row (the item was      *)
(* deleted meanwhile) and an INSERT the constraints reject are unhandled      *)
(* errors. The refresh that follows the commit only reads.                    *)
AddItemWrite(w) ==
  LET p == procs[w]
      obj == TheOne(p.item)
      row == {i \in db.items : i.id = obj.id}
      q2 == FlushedQuantity(TheOne(row), obj, p.q)
      ins == InsertItemChecked(db, p.cart, p.vid, p.q)
  IN /\ p.pc = "write"
     /\ IF p.item # {}
          THEN IF row = {}
                 THEN db' = db /\ Finish(w, p, ServerError, 0, {})
                 ELSE /\ q2 <= MaxQty
                      /\ db' = SetQuantity(db, TheOne(row), q2)
                      /\ Finish(w, p, Created, obj.id,
                                {CartItemResponse([TheOne(row) EXCEPT !.quantity = q2])})
          ELSE /\ db.seq.item < MaxItems
               /\ db' = ins.w
               /\ IF ins.ok
                    THEN Finish(w, p, Created, ins.id,
                                {[id |-> ins.id, variant_id |-> p.vid, quantity |-> p.q]})
                    ELSE Finish(w, p, ServerError, 0, {})

StartAddItem == \E w \in Workers, sid \in ConcSessions, vid \in ConcVariantIds,
                   q \in ConcQuantities : AddItemSelectCart(w, sid, vid, q)

CreateCartStart == \E w \in Workers, sid \in ConcSessions : StartCreateCart(w, sid)

WorkerStep == \E w \in Workers :
  \/ CreateCartSelect(w)
  \/ CreateCartInsert(w)
  \/ CreateCartReload(w)
  \/ AddItemSelectVariant(w)
  \/ AddItemSelectItem(w)
  \/ AddItemWrite(w)

(* The variant or the product is deleted while cart requests are served. *)
DeleteExistingVariant == \E v \in db.variants : DeleteVariantReq(v.id)

DeleteExistingProduct == \E p \in db.products : DeleteProductReq(p.id)

NextConcurrent ==
  \/ CreateTestProduct
  \/ DeleteExistingVariant
  \/ DeleteExistingProduct
  \/ StartAddItem
  \/ CreateCartStart
  \/ WorkerStep

SpecConcurrent == Init /\ [][NextConcurrent]_vars

(* ---- the shop: any product request while no cart request has been made,    *)
(* and the concurrent cart requests over the catalog of the test product ---- *)

NoCartRequest == \A w \in Workers : procs[w].pc = "idle"

(* The product requests so far were those of the concurrent cart's catalog:   *)
(* the test product was created; it or its variant may have been deleted.     *)
TestCatalog ==
  /\ last.op \in {"none", "create_product", "delete_variant", "delete_product"}
  /\ db.seq.rec = 0
  /\ db.seq.product > 0 =>
       /\ db.seq = [EmptyDB.seq EXCEPT !.product = 1, !.variant = 1, !.image = 1,
                                       !.cart = db.seq.cart, !.item = db.seq.item]
       /\ db.products \subseteq {ProductRow(1, TestProduct)}
       /\ db.variants \subseteq {VariantRow(1, 1, TestProduct.variants[1])}
       /\ Cardinality(db.images) = Cardinality(db.products)

NextShop ==
  \/ NoCartRequest /\ NextCatalog
  \/ TestCatalog /\ NextConcurrent

SpecShop == Init /\ [][NextShop]_vars

(* ---- the cart items: bodies with any quantity, served one after another,   *)
(* and the requests of SpecConcurrent served together ----                    *)

NextItems ==
  \/ CreateTestProduct
  \/ CreateCart
  \/ PostItem
  \/ PutItem
  \/ DeleteItem
  \/ ClearCart

NextQuantity ==
  \/ NoCartRequest /\ NextItems
  \/ TestCatalog /\ NextConcurrent

SpecQuantity == Init /\ [][NextQuantity]_vars

(* ---- the recommendations between products that come and go ---- *)

NextRecommendation ==
  \/ CreateAnyProduct
  \/ DeleteProduct
  \/ AddRecommendation
  \/ GetRecommendations
  \/ DeleteRecommendation

SpecRecommendation == Init /\ [][NextRecommendation]_vars

(* ---- the reviews, next to products that come and go ---- *)

NextReview ==
  \/ CreateAnyProduct
  \/ DeleteProduct
  \/ CreateReview
  \/ GetReviews

SpecReview == Init /\ [][NextReview]_vars

----------------------------------------------------------------------------
(* Properties *)

ItemsFor(d, sid, vid) ==
  {i \in d.items : \E c \in FindCartBySession(d, sid) :
                     i.cart_id = c.id /\ i.variant_id = vid}

(* C1: add_item(sid, v, q) for an existing variant v succeeds and leaves      *)
(* exactly one CartItem row for (the session's cart, v), whose id it returns: *)
(* a new row with quantity q when there was none, the same row with its       *)
(* quantity raised by q when there was one. So when the request before it was *)
(* add_item(sid, v, q1) and created the row (it answered quantity q1), this   *)
(* add_item(sid, v, q2) returns the same item id and the one row holds        *)
(* q1 + q2.                                                                   *)
C1_AddItemTwice ==
  [][LET sid == last'.sid
         vid == last'.a
         q2 == last'.b
     IN ( /\ last'.op = "add_item" /\ AddItemReq(sid, vid, q2)
          /\ \E v \in db.variants : v.id = vid ) =>
         LET before == ItemsFor(db, sid, vid)
             after == ItemsFor(db', sid, vid)
         IN /\ last'.status = Created
            /\ Cardinality(after) = 1
            /\ \A i \in after :
                 /\ i.id = last'.id
                 /\ last'.items = {CartItemResponse(i)}
                 /\ before = {} => i.quantity = q2
                 /\ \A o \in before : i.id = o.id /\ i.quantity = o.quantity + q2
                 /\ ( /\ last.op = "add_item" /\ last.status = Created
                      /\ last.sid = sid /\ last.a = vid
                      /\ \A f \in last.items : f.quantity = last.b )
                    => /\ i.id = last.id
                       /\ i.quantity = last.b + q2
            /\ db'.items \ after = db.items \ before]_vars

(* C1 witness: an add_item that succeeded on a row an earlier add_item had    *)
(* created: the row holds more than this call's quantity.                     *)
C1_Witness ==
  /\ last.op = "add_item" /\ last.status = Created
  /\ \E i \in ItemsFor(db, last.sid, last.a) :
       /\ i.id = last.id
       /\ i.quantity = 1 + AddQty
       /\ last.b = AddQty

(* C2: every create_cart(sid) succeeds and returns the id the first           *)
(* create_cart(sid) returned; when the session already has a cart the request *)
(* writes nothing and answers with the cart's current items; no two Cart rows *)
(* ever share a session_id.                                                   *)
C2_CreateCartIdempotent ==
  [][ /\ \A sid \in Sessions : Cardinality(FindCartBySession(db', sid)) <= 1
      /\ ( last'.op = "create_cart" /\ CreateCartReq(last'.sid) ) =>
           /\ last'.status = Created
           /\ last'.id = hist'.firstCartId[last'.sid]
           /\ {c.id : c \in FindCartBySession(db', last'.sid)} = {last'.id}
           /\ hist.firstCartId[last'.sid] # 0 =>
                last'.id = hist.firstCartId[last'.sid]
           /\ FindCartBySession(db, last'.sid) # {} =>
                /\ db' = db
                /\ last'.items = CartResponseItems(db, last'.id)
    ]_vars

(* C2 witness: a second create_cart for a session whose cart holds an item    *)
(* by then; the response carries the first id and the item.                   *)
C2_Witness ==
  /\ last.op = "create_cart" /\ last.status = Created
  /\ last.id = hist.firstCartId[last.sid]
  /\ last.items # {}
  /\ last.items = CartResponseItems(db, last.id)

(* C3: update_item and delete_item on a session that has a cart, for an item  *)
(* id that is not an item of that cart (an item of another cart, or of no     *)
(* cart), answer 403 and leave the database as it was.                        *)
C3_ForeignItemForbidden ==
  [][ ( /\ last'.op \in {"update_item", "delete_item"}
        /\ \/ UpdateItemReq(last'.sid, last'.a, last'.b)
           \/ DeleteItemReq(last'.sid, last'.a)
        /\ FindCartBySession(db, last'.sid) # {}
        /\ \A c \in FindCartBySession(db, last'.sid) :
             last'.a \notin {i.id : i \in CartItemsOf(db, c.id)} ) =>
          /\ last'.status = Forbidden
          /\ db'.items = db.items
          /\ db' = db
    ]_vars

(* C3 witness: update_item was refused with 403 for an item that is a row of  *)
(* another session's cart.                                                    *)
C3_Witness ==
  /\ last.op = "update_item" /\ last.status = Forbidden
  /\ \E i \in db.items, c \in db.carts :
       /\ i.id = last.a /\ i.cart_id = c.id /\ c.session_id # last.sid
       /\ i.quantity # last.b
  /\ FindCartBySession(db, last.sid) # {}

(* C4: once delete(product_id) has succeeded, the product and every variant,  *)
(* image and recommendation row that referenced it (as base or as             *)
(* recommended side) are gone for good: no row with such an id or reference   *)
(* exists, get answers 404 for the product, update_variant and delete_variant *)
(* answer 404 for its former variants, delete_image for its former images     *)
(* and delete_recommendation for its former edges.                            *)
C4_DeleteCascades ==
  /\ \A pid \in hist.former.products :
       /\ ~ProductExists(db, pid)
       /\ \A v \in db.variants : v.product_id # pid
       /\ \A i \in db.images : i.product_id # pid
       /\ \A e \in db.recs : e.base_product_id # pid /\ e.recommended_product_id # pid
  /\ \A v \in db.variants : v.id \notin hist.former.variants
  /\ \A i \in db.images : i.id \notin hist.former.images
  /\ \A e \in db.recs : e.id \notin hist.former.recs
  /\ (last.op = "get_product" /\ last.a \in hist.former.products)
       => last.status = NotFound
  /\ (last.op \in {"update_variant", "delete_variant"}
        /\ last.a \in hist.former.variants) => last.status = NotFound
  /\ (last.op = "delete_image" /\ last.b \in hist.former.images)
       => last.status = NotFound
  /\ (last.op = "delete_recommendation" /\ last.a \in hist.former.recs)
       => last.status = NotFound

(* C4 witness: a product that had a variant, an image and a recommendation    *)
(* edge was deleted, and delete_recommendation on the former edge answered    *)
(* 404.                                                                       *)
C4_Witness ==
  /\ hist.former.variants # {}
  /\ hist.former.images # {}
  /\ last.op = "delete_recommendation"
  /\ last.a \in hist.former.recs
  /\ last.status = NotFound

(* A Conflict response: an HTTP error of its own kind, none of the statuses    *)
(* that stand for success, InvalidInput, Forbidden, NotFound or an unhandled  *)
(* failure.                                                                   *)
IsConflict(status) ==
  status \notin {Ok200, Created, BadRequest, Forbidden, NotFound, ServerError}

(* The request was add_variant(pid, variant_in) for some body. *)
AddVariantStep(variant_in) ==
  last'.op = "add_variant" /\ AddVariantReq(last'.a, variant_in)

(* C5: add_variant(product_id, (color, size)) on a product that already has a *)
(* variant with that pair answers with a Conflict error and leaves the        *)
(* product's variants as they were.                                           *)
C5_DuplicateVariantConflict ==
  [][\A variant_in \in VariantSpecs :
       ( /\ AddVariantStep(variant_in)
         /\ \E v \in VariantsOfProduct(db, last'.a) : SamePair(v, variant_in) ) =>
           /\ IsConflict(last'.status)
           /\ db'.variants = db.variants]_vars

C7_SelfRecommendationInvalid ==
  [][ /\ ( /\ last'.op = "add_recommendation"
           /\ AddRecommendationReq(last'.a, last'.b)
           /\ last'.a = last'.b ) =>
             /\ last'.status = BadRequest
             /\ db' = db
      /\ \A e \in db'.recs : e.base_product_id # e.recommended_product_id
    ]_vars

(* C7 witness: add_recommendation(p, p) answered 400 although no product p    *)
(* exists.                                                                    *)
C7_Witness ==
  /\ last.op = "add_recommendation" /\ last.a = last.b
  /\ last.status = BadRequest
  /\ ~ProductExists(db, last.a)
  /\ db.products # {}

(* What the cart of the sequence holds at each place of test_cart_crud. *)
E2EExpected(e) ==
  IF e.stage = 2 THEN {[id |-> e.item, variant_id |-> e.vid, quantity |-> AddQty]}
  ELSE IF e.stage = 3
    THEN {[id |-> e.item, variant_id |-> e.vid, quantity |-> UpdateQty]}
  ELSE {}

(* C8: along create_cart(s) for a new session, add_item(s, v, 2) for an       *)
(* existing variant, update_item(s, item, 5), delete_item(s, item),           *)
(* clear_cart(s), with reads in between: every request of the sequence        *)
(* succeeds, the cart exists throughout, and the cart (as stored and as every *)
(* get(s) shows it) holds no item, then the one item with quantity 2, then    *)
(* that item with quantity 5, then no item.                                   *)
C8_EndToEnd ==
  LET e == hist.e2e
  IN e.stage > 0 =>
       /\ Cardinality(FindCartBySession(db, e.sid)) = 1
       /\ \A c \in FindCartBySession(db, e.sid) :
            CartResponseItems(db, c.id) = E2EExpected(e)
       /\ e.stage \in {2, 3} => e.item > 0
       /\ (last.op = "get_cart" /\ last.sid = e.sid) =>
            last.status = Ok200 /\ last.items = E2EExpected(e)
       /\ last.op = "create_cart" => last.status = Created /\ last.items = {}
       /\ last.op = "add_item" =>
            last.status = Created /\ last.items = E2EExpected(e) /\ last.id = e.item
       /\ last.op = "update_item" =>
            last.status = Ok200 /\ last.items = E2EExpected(e)
       /\ last.op = "delete_item" => last.status = Ok200
       /\ last.op = "clear_cart" => last.status = Ok200

(* C8 witness: the whole sequence has run and the cleared cart was read. *)
C8_Witness ==
  /\ hist.e2e.stage = 5
  /\ last.op = "get_cart" /\ last.sid = hist.e2e.sid
  /\ last.status = Ok200 /\ last.items = {}
  /\ db.seq.item > 0

VariantSpecOf(v) == [color |-> v.color, size |-> v.size, in_stock |-> v.in_stock]

ImageSpecOf(i) == [color |-> i.color]

(* C9: create(product_in) is all or nothing. When it fails, the products,     *)
(* variants and images are what they were, although the product row had been  *)
(* inserted (its id is used up). When it succeeds, the product with the       *)
(* returned id, one variant row per supplied variant and one image row per    *)
(* supplied image, all referencing it, are there together and nothing else    *)
(* changed.                                                                   *)
C9_CreateAtomic ==
  [][last'.op = "create_product" =>
      \A product_in \in CatalogPayloads, imagesFirst \in BOOLEAN :
        CreateProductReq(product_in, imagesFirst) =>
           /\ db'.seq.product = db.seq.product + 1
           /\ last'.status \in {Created, ServerError}
           /\ last'.status = ServerError <=>
                \E j, k \in 1..Len(product_in.variants) :
                  j < k /\ SamePair(product_in.variants[j], product_in.variants[k])
           /\ last'.status # Created =>
                /\ db'.products = db.products
                /\ db'.variants = db.variants
                /\ db'.images = db.images
           /\ last'.status = Created =>
                LET pid == last'.id
                    vs == db'.variants \ db.variants
                    is == db'.images \ db.images
                IN /\ pid = db'.seq.product
                   /\ db'.products = db.products \cup {ProductRow(pid, product_in)}
                   /\ db.variants \subseteq db'.variants
                   /\ db.images \subseteq db'.images
                   /\ \A v \in vs : v.product_id = pid
                   /\ \A i \in is : i.product_id = pid
                   /\ Cardinality(vs) = Len(product_in.variants)
                   /\ Cardinality(is) = Len(product_in.images)
                   /\ {VariantSpecOf(v) : v \in vs} =
                        {product_in.variants[k] : k \in 1..Len(product_in.variants)}
                   /\ {ImageSpecOf(i) : i \in is} =
                        {product_in.images[k] : k \in 1..Len(product_in.images)}
    ]_vars

(* C9 witness: a create with two equal variants failed after its product row  *)
(* had been inserted: a product id and both variant ids are used up and no    *)
(* row of any of the three tables exists or ever existed.                     *)
C9_Witness ==
  /\ last.op = "create_product" /\ last.status = ServerError
  /\ last.a = 2
  /\ db.seq.product = 1 /\ db.seq.variant = 2
  /\ db.products = {} /\ db.variants = {} /\ db.images = {}
  /\ hist.former.products = {}

(* C10: add_item(sid, variant_id, q) for a variant_id that is no row of       *)
(* product_variants answers 404 and adds no CartItem row; a session that had  *)
(* a cart keeps the database as it was, and a session that had none has an    *)
(* empty cart afterwards, which get(sid) returns with zero items.             *)
C10_AddItemUnknownVariant ==
  [][ ( /\ last'.op = "add_item"
        /\ AddItemReq(last'.sid, last'.a, last'.b)
        /\ ~\E v \in db.variants : v.id = last'.a ) =>
          LET sid == last'.sid
              get == GetCartTx(Begin(db'), sid)
          IN /\ last'.status = NotFound
             /\ db'.items = db.items
             /\ Cardinality(FindCartBySession(db', sid)) = 1
             /\ FindCartBySession(db, sid) # {} => db' = db
             /\ FindCartBySession(db, sid) = {} =>
                  /\ db'.carts = db.carts \cup FindCartBySession(db', sid)
                  /\ get.err = 0
                  /\ get.items = {}
    ]_vars

(* C10 witness: add_item answered 404 for a session whose cart no create_cart *)
(* made, at a time when no item had ever been added: the cart is there, empty.*)
C10_Witness ==
  /\ last.op = "add_item" /\ last.status = NotFound
  /\ hist.firstCartId[last.sid] = 0
  /\ db.seq.item = 0
  /\ \E c \in FindCartBySession(db, last.sid) : CartItemsOf(db, c.id) = {}

(* C11: update_item(sid, item_id, q) on an item of the session's own cart     *)
(* answers 200 and stores exactly q in that row, whatever it held before; the *)
(* row keeps its id, cart and variant, and no other CartItem row and no Cart  *)
(* row changes.                                                               *)
C11_UpdateReplaces ==
  [][ ( /\ last'.op = "update_item"
        /\ UpdateItemReq(last'.sid, last'.a, last'.b) ) =>
          \A c \in FindCartBySession(db, last'.sid) :
            \A it \in OwnedItem(db, c.id, last'.a) :
              /\ last'.status = Ok200
              /\ db'.items = (db.items \ {it}) \cup {[it EXCEPT !.quantity = last'.b]}
              /\ \A i \in db'.items : i.id = it.id => i.quantity = last'.b
              /\ db'.carts = db.carts
              /\ last'.items = {[id |-> it.id, variant_id |-> it.variant_id,
                                 quantity |-> last'.b]}
    ]_vars

(* C11 witness: update_item stored 1 in a row of the session's cart (a row    *)
(* never holds less than 1, so nothing was added to it) while another row     *)
(* holds another quantity.                                                    *)
C11_Witness ==
  /\ last.op = "update_item" /\ last.status = Ok200 /\ last.b = 1
  /\ \E i \in ItemsFor(db, last.sid, TheOne(last.items).variant_id) :
       i.id = last.a /\ i.quantity = 1
  /\ \E j \in db.items : j.id # last.a /\ j.quantity # 1

(* C12: get, update_item, delete_item and clear_cart for a session_id that    *)
(* has no cart answer 404 and leave the database as it was; a Cart row only   *)
(* ever appears in a create_cart or add_item request, and none disappears.    *)
C12_NoCartNotFound ==
  [][ /\ ( /\ last'.op \in {"get_cart", "update_item", "delete_item", "clear_cart"}
           /\ \/ GetCartReq(last'.sid)
              \/ UpdateItemReq(last'.sid, last'.a, last'.b)
              \/ DeleteItemReq(last'.sid, last'.a)
              \/ ClearCartReq(last'.sid)
           /\ FindCartBySession(db, last'.sid) = {} ) =>
             /\ last'.status = NotFound
             /\ db' = db
      /\ db'.carts # db.carts => last'.op \in {"create_cart", "add_item"}
      /\ db.carts \subseteq db'.carts
    ]_vars

(* C12 witness: clear_cart answered 404 for a session without a cart while    *)
(* another session's cart holds an item.                                      *)
C12_Witness ==
  /\ last.op = "clear_cart" /\ last.status = NotFound
  /\ FindCartBySession(db, last.sid) = {}
  /\ db.carts # {} /\ db.items # {}

(* C13: clear_cart(sid) for a session that has a cart answers 200, deletes    *)
(* every CartItem row of that cart and nothing else: the Cart row stays with  *)
(* its id, every other cart's rows stay, and get(sid) then returns the cart   *)
(* with zero items.                                                           *)
C13_ClearCart ==
  [][ ( last'.op = "clear_cart" /\ ClearCartReq(last'.sid) ) =>
        \A c \in FindCartBySession(db, last'.sid) :
          LET get == GetCartTx(Begin(db'), last'.sid)
          IN /\ last'.status = Ok200
             /\ db'.items = db.items \ CartItemsOf(db, c.id)
             /\ CartItemsOf(db', c.id) = {}
             /\ db'.carts = db.carts
             /\ \A o \in db.carts : CartItemsOf(db', o.id) =
                   IF o.id = c.id THEN {} ELSE CartItemsOf(db, o.id)
             /\ get.err = 0 /\ get.id = c.id /\ get.items = {}
    ]_vars

(* C13 witness: clear_cart deleted a row of the session's cart and a row of   *)
(* the other cart is still there.                                             *)
C13_Witness ==
  /\ last.op = "clear_cart" /\ last.status = Ok200
  /\ hist.removed # {}
  /\ \E c \in FindCartBySession(db, last.sid) : CartItemsOf(db, c.id) = {}
  /\ db.items # {}

(* C14: update(id, partial) on an existing product gives every field of       *)
(* name, price, description, lifetime_guarantee that the payload carries the  *)
(* value the payload supplies, keeps every field the payload leaves out, and  *)
(* leaves the variants, images and recommendation edges as they were.         *)
C14_PartialUpdate ==
  [][last'.op = "update_product" =>
      \A product_in \in UpdatePayloads :
        ( UpdateProductReq(last'.a, product_in) /\ ProductExists(db, last'.a) ) =>
          /\ \A old \in ProductById(db, last'.a) :
               \E new \in ProductById(db', last'.a) :
                 \A f \in ProductFields :
                   new[f] = IF f \in product_in.set THEN product_in.vals[f] ELSE old[f]
          /\ db'.products \ ProductById(db', last'.a) =
               db.products \ ProductById(db, last'.a)
          /\ db'.variants = db.variants
          /\ db'.images = db.images
          /\ db'.recs = db.recs
    ]_vars

(* C15: delete_image(product_id, image_id) answers 200 and deletes exactly    *)
(* the image row image_id when that row exists and belongs to product_id;     *)
(* otherwise (no such row, or a row of another product) it answers 404 and    *)
(* the database stays as it was.                                              *)
C15_DeleteImageOwnership ==
  [][ ( last'.op = "delete_image" /\ DeleteImageReq(last'.a, last'.b) ) =>
        LET own == {i \in db.images : i.id = last'.b /\ i.product_id = last'.a}
        IN /\ own # {} =>
                /\ last'.status = Ok200
                /\ db'.images = db.images \ own
                /\ db' = [db EXCEPT !.images = db'.images]
           /\ own = {} =>
                /\ last'.status = NotFound
                /\ db' = db
    ]_vars

(* C15 witness: delete_image answered 404 for an existing product and an      *)
(* existing image that belongs to another product; the image is still there.  *)
C15_Witness ==
  /\ last.op = "delete_image" /\ last.status = NotFound
  /\ ProductExists(db, last.a)
  /\ \E i \in db.images : i.id = last.b /\ i.product_id # last.a

(* Two add_item requests for the same (session, variant) are done, both       *)
(* answered 201 and both had found the same existing item holding q0.         *)
BothAddedOnto(w1, w2, it) ==
  /\ w1 # w2
  /\ procs[w1].pc = "done" /\ procs[w2].pc = "done"
  /\ procs[w1].op = "add_item" /\ procs[w2].op = "add_item"
  /\ procs[w1].status = Created /\ procs[w2].status = Created
  /\ procs[w1].sid = procs[w2].sid /\ procs[w1].vid = procs[w2].vid
  /\ it \in procs[w1].seen /\ it \in procs[w2].seen

(* C16: add_item is no atomic upsert. When two add_item calls for the same    *)
(* (cart, variant) have both read the existing item with quantity q0 and both *)
(* succeeded, with q1 and q2, the item holds q0 + q1 or q0 + q2, whichever    *)
(* was written last, and never q0 + q1 + q2: one of the two is lost.          *)
C16_LostUpdate ==
  \A w1, w2 \in Workers : \A it \in procs[w1].seen :
    BothAddedOnto(w1, w2, it) =>
      \A row \in db.items : row.id = it.id =>
        /\ row.quantity \in {it.quantity + procs[w1].q, it.quantity + procs[w2].q}
        /\ row.quantity # it.quantity + procs[w1].q + procs[w2].q

(* C16 witness: the item held 1, add_item with 1 and add_item with 2 both     *)
(* succeeded on it, and it holds 2: the 2 of the other call is lost.          *)
C16_Witness ==
  \E w1, w2 \in Workers : \E it \in procs[w1].seen :
    /\ BothAddedOnto(w1, w2, it)
    /\ it.quantity = 1
    /\ procs[w1].q = 1 /\ procs[w2].q = AddQty
    /\ \E row \in db.items : row.id = it.id /\ row.quantity = 2

(* C17: a successful request answers 201 when it creates (create product,     *)
(* add_images, add_variant, add_recommendation, create cart, add cart item,   *)
(* create review) and 200 when it reads, updates or deletes.                  *)
C17_StatusCodes ==
  last.status \in {Ok200, Created} =>
    ( last.status = Created <=>
        last.op \in {"create_product", "add_images", "add_variant",
                     "add_recommendation", "create_cart", "add_item",
                     "create_review"} )

(* C18: reviews are append-only and do not depend on the product. Every       *)
(* create(review) answers 201 and adds one row with a new id and the          *)
(* product_id given, whether or not a product has that id; no request, delete *)
(* of the product included, removes or changes a stored review; and the       *)
(* default listing returns every stored review, of whatever product.          *)
C18_ReviewsAppendOnly ==
  [][ /\ db.reviews \subseteq db'.reviews
      /\ last'.op = "create_review" =>
           \A review_in \in ReviewPayloads : CreateReviewReq(review_in) =>
             /\ last'.status = Created
             /\ \E r \in db'.reviews \ db.reviews :
                  /\ db'.reviews = db.reviews \cup {r}
                  /\ r.id = last'.id /\ \A o \in db.reviews : o.id # r.id
                  /\ ReviewBody(r) = review_in
                  /\ last'.items = {review_in}
      /\ last'.op # "create_review" => db'.reviews = db.reviews
      /\ last'.op = "get_reviews" =>
           /\ last'.status = Ok200
           /\ last'.items \subseteq {ReviewBody(r) : r \in db.reviews}
           /\ (last'.a = 0 /\ Cardinality(db.reviews) <= last'.b) =>
                last'.items = {ReviewBody(r) : r \in db.reviews}
    ]_vars

(* C18 witness: the default listing returned two reviews of different         *)
(* products, one of a product that was deleted after the review was made and  *)
(* one of a product id that never existed.                                    *)
C18_Witness ==
  /\ last.op = "get_reviews" /\ last.status = Ok200 /\ last.a = 0
  /\ \E r1, r2 \in last.items :
       /\ r1.product_id \in hist.former.products
       /\ r2.product_id > db.seq.product
  /\ last.items = {ReviewBody(r) : r \in db.reviews}

(* C19: in every state, whatever requests were served and however the         *)
(* concurrent ones interleaved, no two Cart rows share a session_id, no two   *)
(* CartItem rows share (cart_id, variant_id), no two ProductVariant rows      *)
(* share (product_id, color, size), no two ProductRecommendation rows share   *)
(* (base_product_id, recommended_product_id), and no recommendation joins a   *)
(* product to itself.                                                         *)
C19_Uniqueness ==
  /\ \A c1, c2 \in db.carts : c1.session_id = c2.session_id => c1 = c2
  /\ \A i1, i2 \in db.items :
       (i1.cart_id = i2.cart_id /\ i1.variant_id = i2.variant_id) => i1 = i2
  /\ \A v1, v2 \in db.variants :
       (v1.product_id = v2.product_id /\ SamePair(v1, v2)) => v1 = v2
  /\ \A r1, r2 \in db.recs :
       ( /\ r1.base_product_id = r2.base_product_id
         /\ r1.recommended_product_id = r2.recommended_product_id ) => r1 = r2
  /\ \A r \in db.recs : r.base_product_id # r.recommended_product_id

(* C19 witness: two concurrent add_item requests for the same (cart, variant) *)
(* both found no item; one inserted the row, the other's INSERT was rejected  *)
(* (the variant is still there), and there is one row.                        *)
C19_Witness ==
  \E w1, w2 \in Workers :
    /\ procs[w1].pc = "done" /\ procs[w2].pc = "done"
    /\ procs[w1].op = "add_item" /\ procs[w2].op = "add_item"
    /\ procs[w1].cart = procs[w2].cart /\ procs[w1].cart # 0
    /\ procs[w1].vid = procs[w2].vid
    /\ procs[w1].seen = {} /\ procs[w2].seen = {}
    /\ procs[w1].status = Created /\ procs[w2].status = ServerError
    /\ \E v \in db.variants : v.id = procs[w2].vid
    /\ Cardinality(ExistingItem(db, procs[w1].cart, procs[w1].vid)) = 1

(* Every CartItem references an existing Cart and an existing ProductVariant, *)
(* every ProductVariant and ProductImage an existing Product, both ends of    *)
(* every ProductRecommendation are existing Products, and once                *)
(* delete_variant(v) or the delete of v's product has succeeded no CartItem   *)
(* references v, then or later.                                               *)
ReferencesExist ==
  /\ \A i \in db.items :
       /\ \E c \in db.carts : c.id = i.cart_id
       /\ \E v \in db.variants : v.id = i.variant_id
       /\ i.variant_id \notin hist.former.variants
  /\ \A v \in db.variants : ProductExists(db, v.product_id)
  /\ \A i \in db.images : ProductExists(db, i.product_id)
  /\ \A r \in db.recs :
       ProductExists(db, r.base_product_id)
         /\ ProductExists(db, r.recommended_product_id)
  /\ (last.op = "delete_variant" /\ last.status = Ok200) =>
       \A i \in db.items : i.variant_id # last.a

(* The last request was add_recommendation and one of its two ids is no       *)
(* product.                                                                   *)
AbsentEndpoint ==
  /\ last.op = "add_recommendation"
  /\ ~ProductExists(db, last.a) \/ ~ProductExists(db, last.b)

(* C20 as claimed: referential integrity holds in every state, and            *)
(* add_recommendation with an absent endpoint answers 404.                    *)
C20_AbsentEndpointNotFound ==
  /\ ReferencesExist
  /\ AbsentEndpoint => last.status = NotFound

(* C20 amended: referential integrity holds in every state, and               *)
(* add_recommendation with an absent endpoint creates no edge and answers     *)
(* 404 when the two ids differ, 400 when they are the same id.                *)
C20_ReferentialIntegrity ==
  /\ ReferencesExist
  /\ AbsentEndpoint =>
       last.status = (IF last.a = last.b THEN BadRequest ELSE NotFound)

(* C20 witness: delete_variant(v) deleted a CartItem that referenced v, and   *)
(* an add_item for v that was being served then failed.                       *)
C20_Witness ==
  /\ last.op = "delete_variant" /\ last.status = Ok200
  /\ hist.removed # {}
  /\ db.carts # {}
  /\ \E w \in Workers :
       /\ procs[w].pc = "done" /\ procs[w].op = "add_item"
       /\ procs[w].vid = last.a /\ procs[w].status = ServerError

(* A step changes the quantity of a CartItem only by adding a positive amount *)
(* in add_item, to the stored value when requests are served one after        *)
(* another and to the value the request read when they are served together,  *)
(* or by replacing it with a positive amount in update_item.                  *)
QuantityStep ==
  \A i \in db.items, j \in db'.items :
    (i.id = j.id /\ i.quantity # j.quantity) =>
      IF procs' = procs
        THEN \/ /\ last'.op = "add_item" /\ last'.status = Created
                /\ last'.b >= 1 /\ j.quantity = i.quantity + last'.b
             \/ /\ last'.op = "update_item" /\ last'.status = Ok200
                /\ last'.a = j.id
                /\ last'.b >= 1 /\ j.quantity = last'.b
        ELSE \E w \in Workers :
               /\ procs[w].pc = "write" /\ procs'[w].pc = "done"
               /\ procs[w].q >= 1
               /\ \E o \in procs[w].item :
                    o.id = j.id /\ j.quantity = o.quantity + procs[w].q

ReverseEdgeStep ==
  ( /\ last'.op = "add_recommendation" /\ last' # last
    /\ last'.a # last'.b
    /\ ProductExists(db, last'.a) /\ ProductExists(db, last'.b)
    /\ ExistingRecommendation(db, last'.b, last'.a) # {}
    /\ ExistingRecommendation(db, last'.a, last'.b) = {} ) =>
      /\ last'.status = Ok200
      /\ \E r \in db'.recs :
           /\ r.base_product_id = last'.a /\ r.recommended_product_id = last'.b
           /\ db'.recs = db.recs \cup {r} /\ r \notin db.recs

(* C22: recommendation edges are directed. get_recommendations(x) answers     *)
(* 404 when x is no product and otherwise returns exactly the edges whose     *)
(* base is x, so an edge (a, b) is in the answer for a and not in the answer  *)
(* for b; and add_recommendation(b, a) succeeds as an edge of its own while   *)
(* (a, b) is there.                                                           *)
C22_DirectedEdges ==
  /\ [](last.op = "get_recommendations" =>
         IF ProductExists(db, last.a)
           THEN /\ last.status = Ok200
                /\ last.items = {r \in db.recs : r.base_product_id = last.a}
                /\ \A r \in db.recs :
                     (r.recommended_product_id = last.a /\ r.base_product_id # last.a)
                       => r \notin last.items
           ELSE last.status = NotFound /\ last.items = {})
  /\ [][ReverseEdgeStep]_vars

(* C22 witness: the edges (a, b) and (b, a) are both there, and               *)
(* get_recommendations(b) returned (b, a) alone.                              *)
C22_Witness ==
  /\ last.op = "get_recommendations" /\ last.status = Ok200
  /\ \E r1, r2 \in db.recs :
       /\ r1.base_product_id = last.a /\ r2.recommended_product_id = last.a
       /\ r1.recommended_product_id = r2.base_product_id
       /\ r1.recommended_product_id # last.a
       /\ last.items = {r1}

(* C23: however two create_cart(s) calls, or a create_cart(s) and an          *)
(* add_item(s, ..) on a session without a cart, interleave, there is at most  *)
(* one Cart row of session s, and each call ends with that cart: create_cart  *)
(* returns it and add_item goes on with it, neither fails on it.              *)
C23_ConcurrentCreateCart ==
  /\ \A c1, c2 \in db.carts : c1.session_id = c2.session_id => c1 = c2
  /\ \A w \in Workers :
       (procs[w].pc = "done" /\ procs[w].op \in {"create_cart", "add_item"}) =>
         /\ \E c \in FindCartBySession(db, procs[w].sid) : c.id = procs[w].cart
         /\ procs[w].op = "create_cart" =>
              procs[w].status = Created /\ procs[w].id = procs[w].cart

====
